---- MODULE Spec2Model ----
(***************************************************************************)
(* Certificate mailer (automation.py): the name-reconciliation pipeline    *)
(* and the send loop of main().                                            *)
(*                                                                         *)
(* Python strings are TLA+ strings; a character is a string of length 1.   *)
(* Similarity ratios are kept exact as pairs of integers (2*M over T), so  *)
(* a comparison with a threshold is an integer comparison.                 *)
(***************************************************************************)
EXTENDS Integers, Sequences, FiniteSets, TLC

(***************************************************************************)
(* Characters and elementary string functions (Python str / re).           *)
(***************************************************************************)
Ch(s, i) == SubSeq(s, i, i)

LowerChars == "abcdefghijklmnopqrstuvwxyz"
UpperChars == "ABCDEFGHIJKLMNOPQRSTUVWXYZ"
DigitChars == "0123456789"

CharsOf(s) == { Ch(s, i) : i \in 1..Len(s) }

LowerSet == CharsOf(LowerChars)
UpperSet == CharsOf(UpperChars)
DigitSet == CharsOf(DigitChars)

\* \s of the re module, over the characters the model uses
SpaceSet == {" ", "\t", "\n"}

\* \w of the re module (after unidecode the text is ASCII)
WordSet == LowerSet \cup UpperSet \cup DigitSet \cup {"_"}

\* str.lower() on one character
LowerCh(c) ==
    IF c \in UpperSet
    THEN Ch(LowerChars, CHOOSE i \in 1..26 : Ch(UpperChars, i) = c)
    ELSE IF c = "É" THEN "é" ELSE c

\* unidecode() on one character: ASCII is left alone, an accented letter
\* is folded to its base letter
UnidecodeCh(c) ==
    IF c = "é" THEN "e" ELSE IF c = "É" THEN "E" ELSE c

RECURSIVE Lower(_)
Lower(s) == IF s = "" THEN "" ELSE LowerCh(Ch(s, 1)) \o Lower(Tail(s))

RECURSIVE unidecode(_)
unidecode(s) == IF s = "" THEN "" ELSE UnidecodeCh(Ch(s, 1)) \o unidecode(Tail(s))

RECURSIVE LStrip(_)
LStrip(s) == IF s # "" /\ Ch(s, 1) \in SpaceSet THEN LStrip(Tail(s)) ELSE s

RECURSIVE RStrip(_)
RStrip(s) ==
    IF s # "" /\ Ch(s, Len(s)) \in SpaceSet
    THEN RStrip(SubSeq(s, 1, Len(s) - 1))
    ELSE s

\* str.strip()
Strip(s) == RStrip(LStrip(s))

\* s.startswith(p)
StartsWith(s, p) == Len(p) <= Len(s) /\ SubSeq(s, 1, Len(p)) = p

\* s.endswith(p)
EndsWith(s, p) ==
    Len(p) <= Len(s) /\ SubSeq(s, Len(s) - Len(p) + 1, Len(s)) = p

\* s[i:] starts with p  (1-based i)
MatchAt(s, i, p) ==
    i + Len(p) - 1 <= Len(s) /\ SubSeq(s, i, i + Len(p) - 1) = p

\* p in s
Contains(s, p) == \E i \in 1..(Len(s) + 1) : MatchAt(s, i, p)

\* the characters of s that are in the set keep, in order
RECURSIVE KeepOnly(_, _)
KeepOnly(s, keep) ==
    IF s = "" THEN ""
    ELSE (IF Ch(s, 1) \in keep THEN Ch(s, 1) ELSE "") \o KeepOnly(Tail(s), keep)

\* index just past the run of characters of cls that starts at i
RECURSIVE RunEnd(_, _, _)
RunEnd(s, i, cls) ==
    IF i <= Len(s) /\ Ch(s, i) \in cls THEN RunEnd(s, i + 1, cls) ELSE i

\* re.sub(r'\s+', repl, s) from position i on
RECURSIVE SubSpaces(_, _, _)
SubSpaces(s, i, repl) ==
    IF i > Len(s) THEN ""
    ELSE IF Ch(s, i) \in SpaceSet
         THEN repl \o SubSpaces(s, RunEnd(s, i, SpaceSet), repl)
         ELSE Ch(s, i) \o SubSpaces(s, i + 1, repl)

\* re.sub(pat, repl, s) for a pattern without metacharacters, from i on
RECURSIVE SubLiteral(_, _, _, _)
SubLiteral(s, i, pat, repl) ==
    IF i > Len(s) THEN ""
    ELSE IF MatchAt(s, i, pat)
         THEN repl \o SubLiteral(s, i + Len(pat), pat, repl)
         ELSE Ch(s, i) \o SubLiteral(s, i + 1, pat, repl)

\* re.sub(pre + r'\s+' + post, repl, s), from i on
RECURSIVE SubSpaced(_, _, _, _, _)
SubSpaced(s, i, pre, post, repl) ==
    IF i > Len(s) THEN ""
    ELSE LET j == i + Len(pre)
             m == RunEnd(s, j, SpaceSet)
         IN  IF MatchAt(s, i, pre) /\ m > j /\ MatchAt(s, m, post)
             THEN repl \o SubSpaced(s, m + Len(post), pre, post, repl)
             ELSE Ch(s, i) \o SubSpaced(s, i + 1, pre, post, repl)

(***************************************************************************)
(* pandas: an empty cell is the float NaN; every other cell is a string.   *)
(***************************************************************************)
NaN == "<NaN>"

isna(v) == v = NaN

\* str(v)
Str(v) == IF isna(v) THEN "nan" ELSE v

(***************************************************************************)
(* normalize_name                                                          *)
(***************************************************************************)
Titles ==
    {"mr", "mrs", "ms", "miss", "dr", "prof", "sir", "dame", "jr", "sr",
     "ii", "iii", "iv", "v", "phd", "md", "dds", "dvm"}

\* \b at position i of s: exactly one of s[i-1], s[i] is a word character
WordBoundary(s, i) ==
    LET before == i > 1 /\ Ch(s, i - 1) \in WordSet
        after  == i <= Len(s) /\ Ch(s, i) \in WordSet
    IN  before # after

\* re.sub(r'\b(mr|...|dvm)\b\.?\s*', '', s) from position i on.  The group
\* is followed by \b, so it can only match the whole word that starts at i.
RECURSIVE RemoveTitles(_, _)
RemoveTitles(s, i) ==
    IF i > Len(s) THEN ""
    ELSE LET e == RunEnd(s, i, WordSet)
             d == IF e <= Len(s) /\ Ch(s, e) = "." THEN e + 1 ELSE e
         IN  IF WordBoundary(s, i) /\ e > i /\ SubSeq(s, i, e - 1) \in Titles
             THEN RemoveTitles(s, RunEnd(s, d, SpaceSet))
             ELSE Ch(s, i) \o RemoveTitles(s, i + 1)

normalize_name(name) ==
    IF isna(name) THEN ""
    ELSE LET s1 == Lower(unidecode(Strip(Str(name))))
             s2 == RemoveTitles(s1, 1)
             s3 == KeepOnly(s2, LowerSet \cup SpaceSet)
         IN  Strip(SubSpaces(s3, 1, " "))

(***************************************************************************)
(* is_valid_email, clean_email                                             *)
(***************************************************************************)
EmailLocalSet == LowerSet \cup UpperSet \cup DigitSet \cup {".", "_", "%", "+", "-"}
EmailDomainSet == LowerSet \cup UpperSet \cup DigitSet \cup {".", "-"}

AllIn(s, lo, hi, cls) == \A i \in lo..hi : Ch(s, i) \in cls

\* re.match(r"^[a-zA-Z0-9._%+-]+@[a-zA-Z0-9.-]+\.[a-zA-Z]{2,}$", s)
EmailPattern(s) ==
    \E at \in 2..Len(s) : \E dot \in (at + 2)..(Len(s) - 2) :
        /\ AllIn(s, 1, at - 1, EmailLocalSet)
        /\ Ch(s, at) = "@"
        /\ AllIn(s, at + 1, dot - 1, EmailDomainSet)
        /\ Ch(s, dot) = "."
        /\ AllIn(s, dot + 1, Len(s), LowerSet \cup UpperSet)

is_valid_email(email) ==
    IF isna(email) THEN FALSE
    ELSE EmailPattern(Lower(Strip(Str(email))))

\* the corrections table, applied in the order of the dict
ApplyCorrections(e) ==
    LET c1 == SubLiteral(e,  1, "gmsil.com", "gmail.com")
        c2 == SubLiteral(c1, 1, "gnail.com", "gmail.com")
        c3 == SubLiteral(c2, 1, "@gmail,com", "@gmail.com")
        c4 == SubLiteral(c3, 1, "@yahoo,com", "@yahoo.com")
        c5 == SubLiteral(c4, 1, "@outlook,com", "@outlook.com")
        c6 == SubSpaced(c5, 1, "yahoo", "com", "yahoo.com")
        c7 == SubSpaced(c6, 1, "hotmail", "com", "hotmail.com")
    IN  SubSpaced(c7, 1, "outlook", "com", "outlook.com")

clean_email(email) ==
    IF isna(email) THEN ""
    ELSE LET e1 == Lower(Strip(Str(email)))
             e2 == SubSpaces(e1, 1, "")
             e3 == ApplyCorrections(e2)
         IN  IF is_valid_email(e3) THEN e3 ELSE ""

(***************************************************************************)
(* difflib.SequenceMatcher(None, a, b): no junk test, and the automatic    *)
(* junk heuristic only applies to sequences of 200 items or more.          *)
(* Positions are 0-based half-open ranges as in difflib.                   *)
(***************************************************************************)
\* length of the common run a[i:i+k] == b[j:j+k] inside a[..ahi], b[..bhi]
RECURSIVE CommonRun(_, _, _, _, _, _)
CommonRun(a, b, i, j, ahi, bhi) ==
    IF i < ahi /\ j < bhi /\ Ch(a, i + 1) = Ch(b, j + 1)
    THEN 1 + CommonRun(a, b, i + 1, j + 1, ahi, bhi)
    ELSE 0

SetMax(S) == CHOOSE m \in S : \A n \in S : n <= m
SetMin(S) == CHOOSE m \in S : \A n \in S : m <= n

\* find_longest_match: the longest block; of those the one starting
\* earliest in a; of those the one starting earliest in b
find_longest_match(a, b, alo, ahi, blo, bhi) ==
    LET size == SetMax({0} \cup { CommonRun(a, b, i, j, ahi, bhi) :
                                    i \in alo..(ahi - 1), j \in blo..(bhi - 1) })
    IN  IF size = 0 THEN [i |-> alo, j |-> blo, size |-> 0]
        ELSE LET bi == SetMin({ i \in alo..(ahi - 1) :
                                 \E j \in blo..(bhi - 1) :
                                     CommonRun(a, b, i, j, ahi, bhi) = size })
                 bj == SetMin({ j \in blo..(bhi - 1) :
                                 CommonRun(a, b, bi, j, ahi, bhi) = size })
             IN  [i |-> bi, j |-> bj, size |-> size]

\* get_matching_blocks, summed: the total size of the matching blocks
RECURSIVE MatchedSize(_, _, _, _, _, _)
MatchedSize(a, b, alo, ahi, blo, bhi) ==
    IF alo >= ahi \/ blo >= bhi THEN 0
    ELSE LET m == find_longest_match(a, b, alo, ahi, blo, bhi)
         IN  IF m.size = 0 THEN 0
             ELSE m.size
                  + MatchedSize(a, b, alo, m.i, blo, m.j)
                  + MatchedSize(a, b, m.i + m.size, ahi, m.j + m.size, bhi)

\* a ratio is the exact fraction num/den; _calculate_ratio gives 1.0 when
\* both sequences are empty
Fraction(matches, length) ==
    IF length = 0 THEN [num |-> 1, den |-> 1]
    ELSE [num |-> 2 * matches, den |-> length]

\* r >= p/q
RatioGE(r, p, q) == r.num * q >= p * r.den

\* r1 < r2, r1 = r2
RatioLT(r1, r2) == r1.num * r2.den < r2.num * r1.den
RatioEQ(r1, r2) == r1.num * r2.den = r2.num * r1.den

\* r = 0.0
RatioZero(r) == r.num = 0

\* SequenceMatcher(None, a, b).ratio()
ratio(a, b) ==
    Fraction(MatchedSize(a, b, 0, Len(a), 0, Len(b)), Len(a) + Len(b))

\* SequenceMatcher.real_quick_ratio()
real_quick_ratio(a, b) ==
    Fraction(IF Len(a) < Len(b) THEN Len(a) ELSE Len(b), Len(a) + Len(b))

Count(s, c) == Cardinality({ i \in 1..Len(s) : Ch(s, i) = c })

RECURSIVE SumOver(_, _, _)
SumOver(S, a, b) ==
    IF S = {} THEN 0
    ELSE LET c == CHOOSE d \in S : TRUE
             na == Count(a, c)
             nb == Count(b, c)
         IN  (IF na < nb THEN na ELSE nb) + SumOver(S \ {c}, a, b)

\* SequenceMatcher.quick_ratio(): size of the multiset intersection
quick_ratio(a, b) ==
    Fraction(SumOver(CharsOf(a), a, b), Len(a) + Len(b))

(***************************************************************************)
(* Python's order on the strings of name keys (code point order).          *)
(***************************************************************************)
Ord(c) ==
    IF c \in LowerSet
    THEN 96 + (CHOOSE i \in 1..26 : Ch(LowerChars, i) = c)
    ELSE 32

RECURSIVE StrLT(_, _)
StrLT(s, t) ==
    IF t = "" THEN FALSE
    ELSE IF s = "" THEN TRUE
    ELSE IF Ch(s, 1) = Ch(t, 1) THEN StrLT(Tail(s), Tail(t))
    ELSE Ord(Ch(s, 1)) < Ord(Ch(t, 1))

None == "<None>"

\* difflib.get_close_matches(word, possibilities, n=1, cutoff): the
\* candidates are scored with the candidate as first sequence; nlargest(1,
\* ...) is max() over the (score, candidate) tuples
get_close_matches(word, possibilities, cutoff_p, cutoff_q) ==
    LET scored == { x \in possibilities :
                      /\ RatioGE(real_quick_ratio(x, word), cutoff_p, cutoff_q)
                      /\ RatioGE(quick_ratio(x, word), cutoff_p, cutoff_q)
                      /\ RatioGE(ratio(x, word), cutoff_p, cutoff_q) }
        Below(x, y) == \/ RatioLT(ratio(x, word), ratio(y, word))
                       \/ /\ RatioEQ(ratio(x, word), ratio(y, word))
                          /\ StrLT(x, y)
    IN  IF scored = {} THEN <<>>
        ELSE << CHOOSE x \in scored : \A y \in scored \ {x} : Below(y, x) >>

\* fuzzy_match(name, cert_keys, threshold)
fuzzy_match(name, cert_keys, thr_p, thr_q) ==
    LET matches == get_close_matches(name, cert_keys, thr_p, thr_q)
    IN  IF matches # <<>> THEN matches[1] ELSE None

(***************************************************************************)
(* build_cert_map: one directory entry                                     *)
(***************************************************************************)
\* filename.lower().endswith(".pdf")
IsPdf(filename) == EndsWith(Lower(filename), ".pdf")

\* os.path.splitext(filename)[0]: cut at the last dot, unless only dots
\* precede it
splitext_root(filename) ==
    LET dots == { i \in 1..Len(filename) : Ch(filename, i) = "." }
    IN  IF dots = {} THEN filename
        ELSE LET d == SetMax(dots)
             IN  IF \A i \in 1..(d - 1) : Ch(filename, i) = "."
                 THEN filename
                 ELSE SubSeq(filename, 1, d - 1)

\* re.sub(r'^certificate[_\-\s]*', '', base, flags=re.IGNORECASE)
StripCertificatePrefix(base) ==
    IF StartsWith(Lower(base), "certificate")
    THEN SubSeq(base, RunEnd(base, 12, {"_", "-"} \cup SpaceSet), Len(base))
    ELSE base

\* first position of the run of digits that ends the string
RECURSIVE DigitsStart(_, _)
DigitsStart(s, i) ==
    IF i >= 1 /\ Ch(s, i) \in DigitSet THEN DigitsStart(s, i - 1) ELSE i + 1

\* re.sub(pre + r'\d+$', '', s) for a literal pre that ends in a non-digit
StripDigitSuffix(s, pre) ==
    LET p == DigitsStart(s, Len(s))
    IN  IF p <= Len(s) /\ EndsWith(SubSeq(s, 1, p - 1), pre)
        THEN SubSeq(s, 1, p - 1 - Len(pre))
        ELSE s

\* the key build_cert_map derives from a filename
cert_key(filename) ==
    LET base     == splitext_root(filename)
        cleaned1 == StripCertificatePrefix(base)
        cleaned2 == StripDigitSuffix(cleaned1, "_pg")
        cleaned3 == StripDigitSuffix(cleaned2, "_")
    IN  normalize_name(Strip(cleaned3))

(***************************************************************************)
(* A dict is the sequence of its items in insertion order; assigning to a  *)
(* key that is present keeps the key's position.                           *)
(***************************************************************************)
Keys(d) == { d[i].key : i \in 1..Len(d) }

KeyList(d) == [i \in 1..Len(d) |-> d[i].key]

Get(d, key) == d[CHOOSE i \in 1..Len(d) : d[i].key = key].value

\* mutant of dict_set: a key that is present keeps its first filename
dict_set_keep_first(d, key, value) ==
    IF key \in Keys(d) THEN d
    ELSE Append(d, [key |-> key, value |-> value])

\* certs[norm_key] = filename
dict_set(d, key, value) ==
    IF key \in Keys(d)
    THEN [i \in 1..Len(d) |-> IF d[i].key = key
                              THEN [key |-> key, value |-> value]
                              ELSE d[i]]
    ELSE Append(d, [key |-> key, value |-> value])

\* the body of the loop over os.listdir(folder)
build_cert_map_step(certs, filename) ==
    IF ~IsPdf(filename) THEN certs
    ELSE LET norm_key == cert_key(filename)
         IN  IF norm_key # "" THEN dict_set(certs, norm_key, filename)
             ELSE certs

(***************************************************************************)
(* validate_data_and_certificates: header detection and the loop body      *)
(***************************************************************************)
\* "name" in str(first_row.iloc[0]).lower() and "email" in str(...).lower()
header_detected(df) ==
    /\ Contains(Lower(Str(df[1].name)), "name")
    /\ Contains(Lower(Str(df[1].email)), "email")

\* 0-based index of the first row the loop processes
start_idx(df) == IF header_detected(df) THEN 1 ELSE 0

\* norm_name.split()[0] if norm_name else ""
FirstToken(s) ==
    LET t == LStrip(s)
    IN  SubSeq(t, 1, RunEnd(t, 1, { Ch(t, i) : i \in 1..Len(t) } \ SpaceSet) - 1)

\* [k for k in cert_keys if k.startswith(first_name) or first_name in k]
PartialMatches(cert_keys, first_name) ==
    SelectSeq(cert_keys,
              LAMBDA k : StartsWith(k, first_name) \/ Contains(k, first_name))

\* max(partial_match, key=...ratio(norm_name, k)): the first maximum
BestPartial(partial_match, norm_name) ==
    LET i == CHOOSE i \in 1..Len(partial_match) :
                /\ \A j \in 1..Len(partial_match) :
                      ~RatioLT(ratio(norm_name, partial_match[i]),
                               ratio(norm_name, partial_match[j]))
                /\ \A j \in 1..(i - 1) :
                      RatioLT(ratio(norm_name, partial_match[j]),
                              ratio(norm_name, partial_match[i]))
    IN  partial_match[i]

Zero == [num |-> 0, den |-> 1]
One  == [num |-> 1, den |-> 1]

\* mutant of pending_result: 'valid_email' is taken from the raw cell, not
\* from the cleaned email
pending_result_raw_validity(idx, row) ==
    LET name_raw == Strip(Str(row.name))
        email    == clean_email(row.email)
    IN  [index                |-> idx,
         original_name        |-> name_raw,
         original_email       |-> row.email,
         cleaned_email        |-> email,
         normalized_name      |-> normalize_name(name_raw),
         valid_email          |-> is_valid_email(row.email),
         certificate_found    |-> FALSE,
         certificate_filename |-> None,
         match_type           |-> None,
         match_confidence     |-> Zero,
         status               |-> "pending"]

\* the dict 'result' as initialised at the top of the loop body
pending_result(idx, row) ==
    LET name_raw == Strip(Str(row.name))
        email    == clean_email(row.email)
    IN  [index                |-> idx,
         original_name        |-> name_raw,
         original_email       |-> row.email,
         cleaned_email        |-> email,
         normalized_name      |-> normalize_name(name_raw),
         valid_email          |-> email # "",
         certificate_found    |-> FALSE,
         certificate_filename |-> None,
         match_type           |-> None,
         match_confidence     |-> Zero,
         status               |-> "pending"]

Found(result, filename, tier, confidence, status) ==
    [result EXCEPT !.certificate_found = TRUE,
                   !.certificate_filename = filename,
                   !.match_type = tier,
                   !.match_confidence = confidence,
                   !.status = status]

(***************************************************************************)
(* The inputs of a run: the roster file and the certificate folder.        *)
(***************************************************************************)
MaxRows == 2
MaxFiles == 2

\* roster rows (name cell, email cell) as pd.read_excel(header=None) gives
RosterRows ==
    { [name |-> "Name",             email |-> "Email"],
      [name |-> "Dr. Anna",         email |-> "anna@gmail"],
      [name |-> "Anna",             email |-> "anna@gmsil.com"],
      [name |-> "nana",             email |-> "Nana @yahoo,com"],
      [name |-> "Anna K",           email |-> "ak@x.io"],
      [name |-> "Anna Maria",       email |-> "am@x.io"],
      [name |-> "Harshavardhan GH", email |-> "h@x.io"] }

\* names of the entries of the certificate folder
DirEntries ==
    { "Certificate_Anna_pg001.pdf", "Anna_2.PDF", "Dr.pdf", "notes.txt",
      "Gadiyamula Harshavardhan.pdf" }

SeqsUpTo(S, n) == UNION { [1..m -> S] : m \in 0..n }

Rosters == SeqsUpTo(RosterRows, MaxRows)

\* os.listdir gives every entry once, in arbitrary order
Listings ==
    { l \in SeqsUpTo(DirEntries, MaxFiles) :
        \A i, j \in 1..Len(l) : i # j => l[i] # l[j] }

\* answers typed at the confirmation prompt
Responses == {"yes", "YES", "no", ""}

(***************************************************************************)
(* State of one run of main()                                              *)
(***************************************************************************)
VARIABLES
    pc,             \* position in main()
    ending,         \* why main() ended ("" while it runs)
    TEST_MODE,      \* the module-level flag read from the environment
    df,             \* the roster, a sequence of rows
    listing,        \* build_cert_map: the result of os.listdir
    k,              \* build_cert_map: number of entries processed
    certs,          \* the certificate map (available_certs / cert_map)
    idx,            \* validate_data_and_certificates: the loop index
    result,         \* validate_data_and_certificates: the dict 'result'
    results,        \* validate_data_and_certificates: the list 'results'
    tried,          \* for each row, the matching tiers evaluated for it
    validate_called,\* validate_data_and_certificates has been entered
    report_written, \* validation_df.to_csv(match_report_file) was executed
    server,         \* "None", "open" or "closed"
    smtp_connects,  \* number of smtplib.SMTP(...) calls
    response,       \* the answer to the confirmation prompt (None before it)
    pos,            \* send loop: number of report rows handled
    successful, failed, skipped,
    send_calls,     \* report positions handed to send_certificate
    sent            \* report positions handed to server.send_message

VARIABLES
    pages,          \* rename.py: the pages of INPUT_PDF
    folder,         \* rename.py: the file names in OUTPUT_FOLDER
    existing,       \* rename.py: the file names in OUTPUT_FOLDER at the start
    total_pages,    \* split_and_rename_certificates: len(pdf.pages)
    processed,      \* split_and_rename_certificates: pages saved
    skipped_pages,  \* split_and_rename_certificates: its counter 'skipped'
    used_names,     \* split_and_rename_certificates: the dict used_names
    page_idx,       \* split_and_rename_certificates: the loop index
    skipped_log,    \* the page numbers written to SKIPPED_LOG
    attempted       \* for each iteration, the page, its name and its path

VARIABLES
    nn_name,        \* normalize_name: the argument
    nn_results,     \* normalize_name: the results of its repeated application
    fm_name,        \* fuzzy_match: the normalized name looked up
    fm_keys,        \* fuzzy_match: list(cert_map.keys())
    fm_key          \* fuzzy_match: the returned key

automation == <<ending, TEST_MODE, df, listing, k, certs, idx, result, results, tried,
                validate_called, report_written, response, server, smtp_connects, pos,
                successful, failed, skipped, send_calls, sent>>

renaming  == <<pages, folder, existing, total_pages, processed, skipped_pages,
               used_names, page_idx, skipped_log, attempted>>

functions == <<nn_name, nn_results, fm_name, fm_keys, fm_key>>

\* the state of the other script and of the functions applied on their own
others    == <<renaming, functions>>

vars == <<pc, automation, renaming, functions>>

matching  == <<idx, result, results, tried, validate_called, report_written>>
sending   == <<server, smtp_connects, pos, successful, failed, skipped,
               send_calls, sent>>
index     == <<listing, k, certs>>

\* rename.py has not been started
RenameIdle ==
    /\ pages = <<>>
    /\ folder = {}
    /\ existing = {}
    /\ total_pages = 0
    /\ processed = 0
    /\ skipped_pages = 0
    /\ used_names = <<>>
    /\ page_idx = 0
    /\ skipped_log = <<>>
    /\ attempted = <<>>

\* no function is applied on its own
FunctionsIdle ==
    /\ nn_name = ""
    /\ nn_results = <<>>
    /\ fm_name = ""
    /\ fm_keys = <<>>
    /\ fm_key = ""

\* main() has not been started
MainIdle ==
    /\ ending = ""
    /\ df = <<>>
    /\ listing = <<>>
    /\ k = 0
    /\ certs = <<>>
    /\ idx = 0
    /\ result = <<>>
    /\ results = <<>>
    /\ tried = <<>>
    /\ validate_called = FALSE
    /\ report_written = FALSE
    /\ response = None
    /\ server = "None"
    /\ smtp_connects = 0
    /\ pos = 0
    /\ successful = 0
    /\ failed = 0
    /\ skipped = 0
    /\ send_calls = <<>>
    /\ sent = <<>>

Init ==
    /\ pc = "load_excel"
    /\ TEST_MODE \in BOOLEAN
    /\ MainIdle
    /\ RenameIdle
    /\ FunctionsIdle

\* main() returns (or dies with an uncaught exception)
Return(why) == pc' = "done" /\ ending' = why

\* pd.read_excel raises, or the sheet has fewer than two columns
LoadExcelFails ==
    /\ pc = "load_excel"
    /\ \E why \in {"excel_error", "too_few_columns"} : Return(why)
    /\ UNCHANGED <<TEST_MODE, response, others, df, index, matching, sending>>

LoadExcel ==
    /\ pc = "load_excel"
    /\ \E d \in Rosters : df' = d
    /\ pc' = "build_cert_map"
    /\ UNCHANGED <<ending, TEST_MODE, response, others, index, matching, sending>>

\* build_cert_map: the folder does not exist, the empty map is returned
\* and main() stops on it
FolderMissing ==
    /\ pc = "build_cert_map"
    /\ certs' = <<>>
    /\ Return("no_certs")
    /\ UNCHANGED <<TEST_MODE, response, others, df, listing, k, matching, sending>>

ListFolder ==
    /\ pc = "build_cert_map"
    /\ \E l \in Listings : listing' = l
    /\ k' = 0
    /\ certs' = <<>>
    /\ pc' = "listdir"
    /\ UNCHANGED <<ending, TEST_MODE, response, others, df, matching, sending>>

\* one iteration of: for filename in os.listdir(folder)
BuildCertMapStep ==
    /\ pc = "listdir"
    /\ k < Len(listing)
    /\ certs' = build_cert_map_step(certs, listing[k + 1])
    /\ k' = k + 1
    /\ UNCHANGED <<pc, ending, TEST_MODE, response, others, df, listing, matching, sending>>

\* mutant of BuildCertMapReturn: the test 'if not available_certs' is gone
BuildCertMapReturnUnchecked ==
    /\ pc = "listdir"
    /\ k = Len(listing)
    /\ listing' = <<>>
    /\ k' = 0
    /\ pc' = "validate"
    /\ UNCHANGED <<ending, TEST_MODE, response, others, df, certs, matching, sending>>

\* build_cert_map returns; main() stops if the map is empty
BuildCertMapReturn ==
    /\ pc = "listdir"
    /\ k = Len(listing)
    /\ listing' = <<>>
    /\ k' = 0
    /\ IF certs = <<>> THEN Return("no_certs")
       ELSE pc' = "validate" /\ ending' = ending
    /\ UNCHANGED <<TEST_MODE, response, others, df, certs, matching, sending>>

\* validate_data_and_certificates is entered.  An empty roster gives back
\* pd.DataFrame(), which has no 'status' column: main() writes the report
\* and dies on validation_df['status'].
ValidateEnter ==
    /\ pc = "validate"
    /\ validate_called' = TRUE
    /\ IF Len(df) = 0
       THEN /\ report_written' = TRUE
            /\ Return("key_error")
            /\ idx' = idx
       ELSE /\ idx' = start_idx(df)
            /\ pc' = "rows"
            /\ UNCHANGED <<ending, report_written>>
    /\ UNCHANGED <<TEST_MODE, response, others, df, index, result, results, tried, sending>>

\* results.append(result), and on to the next row
AppendResult(r) ==
    /\ result' = r
    /\ results' = Append(results, r)
    /\ idx' = idx + 1
    /\ pc' = "rows"

\* the tier is evaluated for the current row
Evaluate(tier) == tried' = [tried EXCEPT ![Len(tried)] = Append(@, tier)]

rest == <<ending, TEST_MODE, response, others, df, index, validate_called, report_written,
          sending>>

\* mutant of RowBegin: 'continue' without results.append(result)
RowBeginDropsInvalid ==
    /\ pc = "rows"
    /\ idx < Len(df)
    /\ tried' = Append(tried, <<>>)
    /\ \E r \in { pending_result(idx, df[idx + 1]) } :
          IF ~r.valid_email
          THEN /\ result' = [r EXCEPT !.status = "invalid_email"]
               /\ idx' = idx + 1
               /\ UNCHANGED <<pc, results>>
          ELSE /\ result' = r
               /\ pc' = "try_exact"
               /\ UNCHANGED <<idx, results>>
    /\ UNCHANGED rest

\* mutant of RowBegin: the 'continue' of the invalid-email branch is
\* missing, so the matching code runs on the row as well
RowBeginNoContinue ==
    /\ pc = "rows"
    /\ idx < Len(df)
    /\ tried' = Append(tried, <<>>)
    /\ \E r \in { pending_result(idx, df[idx + 1]) } :
          /\ result' = IF ~r.valid_email
                       THEN [r EXCEPT !.status = "invalid_email"] ELSE r
          /\ pc' = "try_exact"
          /\ UNCHANGED <<idx, results>>
    /\ UNCHANGED rest

\* one iteration of: for idx in range(start_idx, len(df)), up to the email
\* test; a row with an invalid email is appended at once
RowBegin ==
    /\ pc = "rows"
    /\ idx < Len(df)
    /\ tried' = Append(tried, <<>>)
    /\ \E r \in { pending_result(idx, df[idx + 1]) } :
          IF ~r.valid_email
          THEN AppendResult([r EXCEPT !.status = "invalid_email"])
          ELSE /\ result' = r
               /\ pc' = "try_exact"
               /\ UNCHANGED <<idx, results>>
    /\ UNCHANGED rest

\* mutant of TryExact: the membership test is gone, every name goes on to
\* the fuzzy tier
TryExactSkipped ==
    /\ pc = "try_exact"
    /\ Evaluate("exact")
    /\ pc' = "try_fuzzy"
    /\ UNCHANGED <<idx, result, results>>
    /\ UNCHANGED rest

\* mutant of TryExact: a name that is not a key goes straight on to the
\* partial tier
TryExactThenPartial ==
    /\ pc = "try_exact"
    /\ Evaluate("exact")
    /\ IF result.normalized_name \in Keys(certs)
       THEN AppendResult(Found(result, Get(certs, result.normalized_name),
                               "exact", One, "matched"))
       ELSE /\ pc' = "try_partial"
            /\ UNCHANGED <<idx, result, results>>
    /\ UNCHANGED rest

\* Try 1: exact match
TryExact ==
    /\ pc = "try_exact"
    /\ Evaluate("exact")
    /\ IF result.normalized_name \in Keys(certs)
       THEN AppendResult(Found(result, Get(certs, result.normalized_name),
                               "exact", One, "matched"))
       ELSE /\ pc' = "try_fuzzy"
            /\ UNCHANGED <<idx, result, results>>
    /\ UNCHANGED rest

\* Try 2: fuzzy match
TryFuzzy ==
    /\ pc = "try_fuzzy"
    /\ Evaluate("fuzzy")
    /\ \E fuzzy_key \in { fuzzy_match(result.normalized_name, Keys(certs), 7, 10) } :
          IF fuzzy_key # None /\ fuzzy_key # ""
          THEN \E confidence \in { ratio(result.normalized_name, fuzzy_key) } :
                  AppendResult(Found(result, Get(certs, fuzzy_key), "fuzzy",
                                     confidence,
                                     IF RatioGE(confidence, 7, 10)
                                     THEN "matched"
                                     ELSE "low_confidence_match"))
          ELSE /\ pc' = "try_partial"
               /\ UNCHANGED <<idx, result, results>>
    /\ UNCHANGED rest

NotFound(r) == [r EXCEPT !.status = "certificate_not_found"]

\* mutant of TryPartial: the confidence is recorded before the 0.6 test
TryPartialKeepsConfidence ==
    /\ pc = "try_partial"
    /\ Evaluate("partial")
    /\ \E first_name \in { IF result.normalized_name # ""
                           THEN FirstToken(result.normalized_name) ELSE "" } :
       \E partial_match \in { PartialMatches(KeyList(certs), first_name) } :
          IF partial_match # <<>>
          THEN \E best_match \in { BestPartial(partial_match, result.normalized_name) } :
               \E confidence \in { ratio(result.normalized_name, best_match) } :
                  IF RatioGE(confidence, 6, 10)
                  THEN AppendResult(Found(result, Get(certs, best_match),
                                          "partial", confidence, "matched"))
                  ELSE AppendResult(
                           NotFound([result EXCEPT !.match_confidence = confidence]))
          ELSE AppendResult(NotFound(result))
    /\ UNCHANGED rest

\* Try 3: partial match (first name only)
TryPartial ==
    /\ pc = "try_partial"
    /\ Evaluate("partial")
    /\ \E first_name \in { IF result.normalized_name # ""
                           THEN FirstToken(result.normalized_name) ELSE "" } :
       \E partial_match \in { PartialMatches(KeyList(certs), first_name) } :
          IF partial_match # <<>>
          THEN \E best_match \in { BestPartial(partial_match, result.normalized_name) } :
               \E confidence \in { ratio(result.normalized_name, best_match) } :
                  IF RatioGE(confidence, 6, 10)
                  THEN AppendResult(Found(result, Get(certs, best_match),
                                          "partial", confidence, "matched"))
                  ELSE AppendResult(NotFound(result))
          ELSE AppendResult(NotFound(result))
    /\ UNCHANGED rest

CountStatus(rs, status) ==
    Cardinality({ i \in 1..Len(rs) : rs[i].status = status })

\* the loop is over: the report is written, the summary is computed and,
\* outside test mode, issues lead to the confirmation prompt.  A report
\* without records has no 'status' column.
ValidateReturn ==
    /\ pc = "rows"
    /\ idx = Len(df)
    /\ report_written' = TRUE
    /\ IF results = <<>> THEN Return("key_error")
       ELSE LET missing  == CountStatus(results, "certificate_not_found")
                low_conf == CountStatus(results, "low_confidence_match")
                invalid  == CountStatus(results, "invalid_email")
            IN  /\ pc' = IF (missing # 0 \/ low_conf # 0 \/ invalid # 0)
                            /\ ~TEST_MODE
                         THEN "confirm" ELSE "connect"
                /\ ending' = ending
    /\ UNCHANGED <<TEST_MODE, response, others, df, index, idx, result, results, tried,
                   validate_called, sending>>

\* mutant of Confirm: the answer is read and not looked at
ConfirmAnyAnswer ==
    /\ pc = "confirm"
    /\ response' \in Responses
    /\ pc' = "connect"
    /\ UNCHANGED <<ending, TEST_MODE, others, df, index, matching, sending>>

\* input("... Continue? (yes/no): ")
Confirm ==
    /\ pc = "confirm"
    /\ response' \in Responses
    /\ IF Lower(response') # "yes" THEN Return("cancelled")
       ELSE pc' = "connect" /\ ending' = ending
    /\ UNCHANGED <<TEST_MODE, others, df, index, matching, sending>>

\* Connect to SMTP
Connect ==
    /\ pc = "connect"
    /\ IF TEST_MODE
       THEN /\ pc' = "send"
            /\ UNCHANGED <<ending, server, smtp_connects>>
       ELSE /\ smtp_connects' = smtp_connects + 1
            /\ \/ server' = "open" /\ pc' = "send" /\ ending' = ending
               \/ server' = server /\ Return("smtp_error")
    /\ UNCHANGED <<TEST_MODE, response, others, df, index, matching, pos, successful, failed,
                   skipped, send_calls, sent>>

\* mutant of Sendable: only rows with an invalid email are skipped
SendableUnlessInvalid(status) == status # "invalid_email"

\* row['status'] in ['matched', 'low_confidence_match']
Sendable(status) == status \in {"matched", "low_confidence_match"}

\* one iteration of: for _, row in validation_df.iterrows()
SendRow ==
    /\ pc = "send"
    /\ pos < Len(results)
    /\ pos' = pos + 1
    /\ LET row == results[pos + 1]
       IN  IF ~Sendable(row.status)
           THEN /\ skipped' = skipped + 1
                /\ UNCHANGED <<successful, failed, send_calls, sent>>
           ELSE \/ \* os.path.exists(cert_path) is false
                   /\ failed' = failed + 1
                   /\ UNCHANGED <<successful, skipped, send_calls, sent>>
                \/ \* send_certificate fails before the send (attachment)
                   /\ send_calls' = Append(send_calls, pos + 1)
                   /\ failed' = failed + 1
                   /\ UNCHANGED <<successful, skipped, sent>>
                \/ \* test mode: the send is simulated
                   /\ TEST_MODE
                   /\ send_calls' = Append(send_calls, pos + 1)
                   /\ successful' = successful + 1
                   /\ UNCHANGED <<failed, skipped, sent>>
                \/ \* server.send_message(msg) returns or raises
                   /\ ~TEST_MODE
                   /\ send_calls' = Append(send_calls, pos + 1)
                   /\ sent' = Append(sent, pos + 1)
                   /\ \/ successful' = successful + 1 /\ failed' = failed
                      \/ failed' = failed + 1 /\ successful' = successful
                   /\ skipped' = skipped
    /\ UNCHANGED <<pc, ending, TEST_MODE, response, others, df, index, matching, server,
                   smtp_connects>>

\* the loop is over: close the server and print the final summary
Finish ==
    /\ pc = "send"
    /\ pos = Len(results)
    /\ server' = IF server = "open" THEN "closed" ELSE server
    /\ Return("completed")
    /\ UNCHANGED <<TEST_MODE, response, others, df, index, matching, smtp_connects, pos,
                   successful, failed, skipped, send_calls, sent>>

Next ==
    \/ LoadExcelFails
    \/ LoadExcel
    \/ FolderMissing
    \/ ListFolder
    \/ BuildCertMapStep
    \/ BuildCertMapReturn
    \/ ValidateEnter
    \/ RowBegin
    \/ TryExact
    \/ TryFuzzy
    \/ TryPartial
    \/ ValidateReturn
    \/ Confirm
    \/ Connect
    \/ SendRow
    \/ Finish

Spec == Init /\ [][Next]_vars

(***************************************************************************)
(* rename.py: the helper functions                                         *)
(***************************************************************************)
\* re.sub(r'[cls]', repl, s)
RECURSIVE SubChars(_, _, _)
SubChars(s, cls, repl) ==
    IF s = "" THEN ""
    ELSE (IF Ch(s, 1) \in cls THEN repl ELSE Ch(s, 1)) \o SubChars(Tail(s), cls, repl)

\* re.sub(r'[^cls]', repl, s)
RECURSIVE SubOtherChars(_, _, _)
SubOtherChars(s, cls, repl) ==
    IF s = "" THEN ""
    ELSE (IF Ch(s, 1) \in cls THEN Ch(s, 1) ELSE repl)
         \o SubOtherChars(Tail(s), cls, repl)

\* str.strip(chars)
RECURSIVE StripChars(_, _)
StripChars(s, cls) ==
    IF s # "" /\ Ch(s, 1) \in cls THEN StripChars(Tail(s), cls)
    ELSE IF s # "" /\ Ch(s, Len(s)) \in cls
         THEN StripChars(SubSeq(s, 1, Len(s) - 1), cls)
         ELSE s

\* str.split()
RECURSIVE Split(_)
Split(s) ==
    LET t == LStrip(s)
    IN  IF t = "" THEN <<>>
        ELSE LET w == FirstToken(t)
             IN  <<w>> \o Split(SubSeq(t, Len(w) + 1, Len(t)))

\* \w of the re module on a str: the letters include the accented ones
UnicodeWordSet == WordSet \cup {"é", "É"}

\* str.isalpha()
isalpha(w) ==
    w # "" /\ \A i \in 1..Len(w) : Ch(w, i) \in (UnicodeWordSet \ (DigitSet \cup {"_"}))

InvalidChars == {"<", ">", ":", "\"", "/", "\\", "|", "?", "*"}

FilenameLimit == 50

\* sanitize_filename(name); None stands for the ValueError
sanitize_filename(raw) ==
    LET n1 == SubChars(raw, InvalidChars, "_")
        n2 == KeepOnly(n1, UnicodeWordSet \cup SpaceSet \cup {"-", "_"})
        n3 == Strip(SubSpaces(n2, 1, " "))
        n4 == StripChars(n3, {" ", ".", "_", "-"})
    IN  IF n4 = "" THEN None
        ELSE SubSeq(n4, 1, IF Len(n4) < FilenameLimit THEN Len(n4) ELSE FilenameLimit)

skip_keywords ==
    {"certificate", "certifies", "congratulations", "participant",
     "diploma", "completion", "attendance", "workshop", "seminar",
     "course", "training", "program", "event", "this", "is awarded to",
     "hackathon", "team darion", "darion", "date", "signed", "winner",
     "certificate of", "issued to", "presented to", "name", "student",
     "the", "and", "for", "this is to", "we present", "in recognition of",
     "please find", "below", "attached", "email", "gmail", "outlook"}

should_skip_line(line) ==
    LET line_lower == Strip(Lower(line))
        words == Split(line)
    IN  IF /\ Len(words) >= 2
           /\ \A i \in 1..Len(words) : isalpha(words[i])
           /\ Lower(words[1]) \notin {"certificate", "this", "issued", "presented",
                                      "participant", "congratulations"}
        THEN FALSE
        ELSE \E kw \in skip_keywords : Contains(line_lower, kw)

\* the name a line gives, None if the line is skipped or gives no name
clean_name(line) ==
    IF should_skip_line(line) THEN None
    ELSE LET c == Strip(SubSpaces(SubOtherChars(line, LowerSet \cup UpperSet \cup SpaceSet, " "),
                                  1, " "))
         IN  IF Len(c) >= 2 /\ Lower(c) # "name" THEN c ELSE None

\* the first name the lines give, in their order
RECURSIVE FirstName(_)
FirstName(lines) ==
    IF lines = <<>> THEN None
    ELSE IF clean_name(lines[1]) # None THEN clean_name(lines[1])
    ELSE FirstName(Tail(lines))

NonEmpty(line) == line # ""

\* extract_participant_name_from_page(page); None stands for the ValueError.
\* page.text is extract_text() split at the newlines (<<>> if there is no
\* text), page.line_data the lines rebuilt from extract_words(), largest
\* font first (<<>> if there are no words or the analysis raised).
extract_participant_name_from_page(page) ==
    LET lines == SelectSeq([i \in 1..Len(page.text) |-> Strip(page.text[i])], NonEmpty)
        top   == SubSeq(page.line_data, 1,
                        IF Len(page.line_data) < 3 THEN Len(page.line_data) ELSE 3)
    IN  IF lines = <<>> THEN None
        ELSE IF FirstName(top) # None THEN FirstName(top)
        ELSE FirstName(lines)

\* mutant of next_used_names: the count of a name that is present stays
next_used_names_no_increment(used, nm) ==
    IF nm \in Keys(used) THEN used ELSE dict_set(used, nm, 0)

\* "Handle duplicates": used_names after the page named nm
next_used_names(used, nm) ==
    IF nm \in Keys(used) THEN dict_set(used, nm, Get(used, nm) + 1)
    ELSE dict_set(used, nm, 0)

\* "Handle duplicates": final_name, from used_names before the update
final_name(used, nm) ==
    IF nm \in Keys(used) THEN nm \o "_" \o ToString(Get(used, nm) + 1) ELSE nm

\* "Avoid overwriting": the while loop, entered with the given counter
RECURSIVE NextFree(_, _, _)
NextFree(final, counter, files) ==
    LET output_filename == final \o "_" \o ToString(counter) \o ".pdf"
    IN  IF output_filename \in files THEN NextFree(final, counter + 1, files)
        ELSE output_filename

\* mutant of output_filename: the while loop is gone
output_filename_unchecked(final, files) == final \o ".pdf"

\* "Create filename" and "Avoid overwriting"; os.path.exists(output_path) is
\* the membership of the file name in the folder
output_filename(final, files) ==
    IF (final \o ".pdf") \in files THEN NextFree(final, 1, files)
    ELSE final \o ".pdf"

(***************************************************************************)
(* rename.py: split_and_rename_certificates                                *)
(***************************************************************************)
MaxPages == 3

\* the pages INPUT_PDF is made of
PageKinds ==
    { [text      |-> <<"CERTIFICATE OF PARTICIPATION", "Anna Maria", "Hackathon 2024">>,
       line_data |-> <<"Anna Maria", "CERTIFICATE OF PARTICIPATION", "Hackathon 2024">>],
      [text      |-> <<"This is to certify", " Anna-Maria ", "Date: 2024">>,
       line_data |-> <<>>],
      [text      |-> <<"Certificate of Merit", "Ravi K">>,
       line_data |-> <<"Certificate of Merit", "2024", "X", "Ravi K">>],
      [text      |-> <<"Certificate", "Date 2024">>,
       line_data |-> <<"Certificate">>] }

Documents == UNION { [1..n -> PageKinds] : n \in 0..MaxPages }

\* what OUTPUT_FOLDER holds when the script starts
InitialFolders == { {}, {"Anna Maria.pdf"}, {"Anna Maria.pdf", "Anna Maria_1.pdf"} }

InitRename ==
    /\ pc = "rename"
    /\ TEST_MODE = FALSE
    /\ MainIdle
    /\ RenameIdle
    /\ FunctionsIdle

\* INPUT_PDF is missing, or pdfplumber or PyPDF2 cannot read it
RenameReturns ==
    /\ pc = "rename"
    /\ \E fs \in InitialFolders : folder' = fs /\ existing' = fs
    /\ pc' = "returned"
    /\ UNCHANGED <<pages, total_pages, processed, skipped_pages, used_names,
                   page_idx, skipped_log, attempted, automation, functions>>

\* os.makedirs, the reset of SKIPPED_LOG and the two opens of INPUT_PDF
OpenPdf ==
    /\ pc = "rename"
    /\ \E fs \in InitialFolders : folder' = fs /\ existing' = fs
    /\ \E ps \in Documents : pages' = ps /\ total_pages' = Len(ps)
    /\ processed' = 0
    /\ skipped_pages' = 0
    /\ used_names' = <<>>
    /\ page_idx' = 0
    /\ skipped_log' = <<>>
    /\ pc' = "pages"
    /\ UNCHANGED <<attempted, automation, functions>>

\* mutant of SkipPage: the exception ends the loop
SkipPageBreaks ==
    /\ skipped_log' = Append(skipped_log, page_idx + 1)
    /\ skipped_pages' = skipped_pages + 1
    /\ processed' = processed
    /\ page_idx' = total_pages

\* except Exception: the page is logged and counted, the loop goes on
SkipPage ==
    /\ skipped_log' = Append(skipped_log, page_idx + 1)
    /\ skipped_pages' = skipped_pages + 1
    /\ processed' = processed
    /\ page_idx' = page_idx + 1

\* the iteration for page_idx: the name it found, the path it chose, whether
\* that path existed when it was opened and whether the page was saved
Attempt(nm, path, saved) ==
    attempted' = Append(attempted, [page    |-> page_idx,
                                    name    |-> nm,
                                    path    |-> path,
                                    existed |-> path \in folder,
                                    saved   |-> saved])

\* one iteration of: for page_idx in range(total_pages)
ProcessPage ==
    /\ pc = "pages"
    /\ page_idx < total_pages
    /\ \E raw_name \in { extract_participant_name_from_page(pages[page_idx + 1]) } :
       \E nm \in { IF raw_name = None THEN None ELSE sanitize_filename(raw_name) } :
          IF nm = None
          THEN /\ SkipPage
               /\ Attempt(None, None, FALSE)
               /\ UNCHANGED <<used_names, folder>>
          ELSE \E path \in { output_filename(final_name(used_names, nm), folder) } :
                  /\ used_names' = next_used_names(used_names, nm)
                  /\ \/ \* the page is written
                        /\ folder' = folder \cup {path}
                        /\ processed' = processed + 1
                        /\ page_idx' = page_idx + 1
                        /\ Attempt(nm, path, TRUE)
                        /\ UNCHANGED <<skipped_pages, skipped_log>>
                     \/ \* add_page or open(output_path, 'wb') raises
                        /\ folder' = folder
                        /\ SkipPage
                        /\ Attempt(nm, path, FALSE)
                     \/ \* writer.write raises, the file has been created
                        /\ folder' = folder \cup {path}
                        /\ SkipPage
                        /\ Attempt(nm, path, FALSE)
    /\ UNCHANGED <<pc, pages, existing, total_pages, automation, functions>>

\* the loop is over: the final summary
Summary ==
    /\ pc = "pages"
    /\ page_idx = total_pages
    /\ pc' = "finished"
    /\ UNCHANGED <<renaming, automation, functions>>

NextRename ==
    \/ RenameReturns
    \/ OpenPdf
    \/ ProcessPage
    \/ Summary

SpecRename == InitRename /\ [][NextRename]_vars

(***************************************************************************)
(* normalize_name applied to a name, and again to its own result           *)
(***************************************************************************)
MaxNameLen == 3

NameAlphabet == {"d", "r", "a", ".", "-", " "}

RECURSIVE Join(_)
Join(cs) == IF cs = <<>> THEN "" ELSE cs[1] \o Join(Tail(cs))

\* the raw names: the strings of at most MaxNameLen characters
RawNames == { Join(cs) : cs \in SeqsUpTo(NameAlphabet, MaxNameLen) }

InitNormalize ==
    /\ pc = "normalize_name"
    /\ TEST_MODE = FALSE
    /\ MainIdle
    /\ RenameIdle
    /\ nn_name \in RawNames
    /\ nn_results = <<>>
    /\ fm_name = ""
    /\ fm_keys = <<>>
    /\ fm_key = ""

\* normalize_name(name)
NormalizeOnce ==
    /\ pc = "normalize_name"
    /\ nn_results = <<>>
    /\ nn_results' = <<normalize_name(nn_name)>>
    /\ UNCHANGED <<pc, nn_name, fm_name, fm_keys, fm_key, automation, renaming>>

\* normalize_name(normalize_name(name))
NormalizeAgain ==
    /\ pc = "normalize_name"
    /\ Len(nn_results) = 1
    /\ nn_results' = Append(nn_results, normalize_name(nn_results[1]))
    /\ pc' = "returned"
    /\ UNCHANGED <<nn_name, fm_name, fm_keys, fm_key, automation, renaming>>

NextNormalize ==
    \/ NormalizeOnce
    \/ NormalizeAgain

SpecNormalize == InitNormalize /\ [][NextNormalize]_vars

(***************************************************************************)
(* fuzzy_match applied to a normalized name and the keys of an index       *)
(***************************************************************************)
MaxKeys == 3

\* normalized names of roster rows
LookedUpNames == {"anna k", "anna", "ravi"}

\* keys of certificate files
IndexKeys == {"anna j", "anna l", "anna m", "anne", "ravi k"}

\* list(cert_map.keys()): the keys of a dict, each once, in insertion order
KeyLists ==
    { l \in SeqsUpTo(IndexKeys, MaxKeys) :
        \A i, j \in 1..Len(l) : i # j => l[i] # l[j] }

InitFuzzy ==
    /\ pc = "fuzzy_match"
    /\ TEST_MODE = FALSE
    /\ MainIdle
    /\ RenameIdle
    /\ nn_name = ""
    /\ nn_results = <<>>
    /\ fm_name \in LookedUpNames
    /\ fm_keys \in KeyLists
    /\ fm_key = ""

\* fuzzy_key = fuzzy_match(norm_name, cert_keys, threshold=0.7)
FuzzyMatch ==
    /\ pc = "fuzzy_match"
    /\ fm_key' = fuzzy_match(fm_name, { fm_keys[i] : i \in 1..Len(fm_keys) }, 7, 10)
    /\ pc' = "returned"
    /\ UNCHANGED <<nn_name, nn_results, fm_name, fm_keys, automation, renaming>>

NextFuzzy == FuzzyMatch

SpecFuzzy == InitFuzzy /\ [][NextFuzzy]_vars

(***************************************************************************)
(* Properties                                                              *)
(***************************************************************************)
Statuses ==
    {"invalid_email", "matched", "low_confidence_match",
     "certificate_not_found"}

\* the roster row a record was made from
RowOf(r) == df[r.index + 1]

(***************************************************************************)
(* The functions of the program tabulated over the inputs of the model, so *)
(* that a property looks a value up instead of computing it again in every *)
(* state (f @@ g is evaluated to an explicit function).                    *)
(***************************************************************************)
Empty == [e \in {} |-> ""]

\* normalize_name of the name cell of each roster row
RowKey == [row \in RosterRows |-> normalize_name(Strip(Str(row.name)))] @@ Empty

\* clean_email of the email cell of each roster row
RowEmail == [row \in RosterRows |-> clean_email(row.email)] @@ Empty

\* the key build_cert_map derives from each folder entry
EntryKey == [f \in DirEntries |-> cert_key(f)] @@ Empty

\* every name key the model can produce
NameKeys == { RowKey[row] : row \in RosterRows } \cup { EntryKey[f] : f \in DirEntries }

\* SequenceMatcher(None, a, b).ratio() for all pairs of name keys
Similarity == [p \in NameKeys \X NameKeys |-> ratio(p[1], p[2])] @@ Empty

Sim(a, b) == Similarity[<<a, b>>]

\* the name key and the cleaned email of a record, taken from its row
KeyOf(r) == RowKey[RowOf(r)]
EmailOf(r) == RowEmail[RowOf(r)]

Records == 1..Len(results)

\* validate_data_and_certificates has returned a report with records
Reported == report_written /\ results # <<>>

\* the loop of validate_data_and_certificates is running or has just ended:
\* 'results' is the list being built, and at idx = len(df) the list returned
InLoop == pc = "rows"

\* the loop of validate_data_and_certificates is at its head or in its body
Validating == pc \in {"rows", "try_exact", "try_fuzzy", "try_partial"}

\* C1: the report has one record per processed row, in row order: the
\* 'index' fields are start_idx, start_idx+1, ... without gap or duplicate,
\* and once the loop has ended they reach len(df)-1.
C1_OneRecordPerRowInOrder ==
    (validate_called /\ Len(df) > 0) =>
        /\ \A i \in Records : results[i].index = start_idx(df) + i - 1
        /\ Len(results) = idx - start_idx(df)
        /\ (~Validating => Len(results) = Len(df) - start_idx(df))

C1_Witness ==
    /\ Reported
    /\ Len(results) = 2
    /\ results[1].status = "invalid_email"
    /\ results[2].status = "matched"

\* C2: every record has exactly one of the four final statuses, never
\* 'pending', and an invalid email takes priority: such a row is
\* invalid_email whatever its name matches, and no other row is.
C2_StatusTaxonomy ==
    InLoop => \A i \in Records :
        /\ results[i].status \in Statuses
        /\ (EmailOf(results[i]) = "") <=> (results[i].status = "invalid_email")

C2_Witness ==
    InLoop /\ idx = Len(df) /\ \E i \in Records :
        /\ EmailOf(results[i]) = ""
        /\ KeyOf(results[i]) \in Keys(certs)
        /\ results[i].status = "invalid_email"

\* C3: a row whose email is invalid after clean_email is short-circuited:
\* no matching tier is evaluated for it and its record keeps the initial
\* match fields.
C3_InvalidEmailShortCircuit ==
    InLoop => \A i \in Records :
        EmailOf(results[i]) = "" =>
            /\ tried[i] = <<>>
            /\ results[i].status = "invalid_email"
            /\ results[i].match_confidence = Zero
            /\ results[i].match_type = None
            /\ results[i].certificate_found = FALSE
            /\ results[i].certificate_filename = None

C3_Witness ==
    InLoop /\ idx = Len(df) /\ \E i \in Records :
        /\ RowOf(results[i]).email # ""
        /\ EmailOf(results[i]) = ""
        /\ tried[i] = <<>>
        /\ \E key \in Keys(certs) :
              RatioGE(Sim(key, KeyOf(results[i])), 7, 10)

\* C4: in the send loop send_certificate (and so server.send_message) is
\* only invoked for rows with status matched or low_confidence_match; the
\* rows with status invalid_email or certificate_not_found are the ones
\* counted as skipped.
C4_OnlyMatchedRowsAreSent ==
    /\ \A j \in 1..Len(send_calls) :
          results[send_calls[j]].status \in {"matched", "low_confidence_match"}
    /\ \A j \in 1..Len(sent) :
          results[sent[j]].status \in {"matched", "low_confidence_match"}
    /\ skipped = Cardinality({ i \in 1..pos :
                     results[i].status \in {"invalid_email",
                                            "certificate_not_found"} })

C4_Witness ==
    /\ pos = Len(results)
    /\ skipped > 0
    /\ sent # <<>>
    /\ \E i \in Records : results[i].status = "certificate_not_found"

\* C5: a row with a valid email whose name key is a key of the index is an
\* exact match: confidence 1.0, the filename stored under the key, status
\* matched, and only the exact tier was evaluated.
C5_ExactMatch ==
    InLoop => \A i \in Records :
        (EmailOf(results[i]) # "" /\ KeyOf(results[i]) \in Keys(certs)) =>
            /\ results[i].match_type = "exact"
            /\ results[i].match_confidence = One
            /\ results[i].certificate_filename = Get(certs, KeyOf(results[i]))
            /\ results[i].certificate_found
            /\ results[i].status = "matched"
            /\ tried[i] = <<"exact">>

C5_Witness ==
    InLoop /\ idx = Len(df) /\ \E i \in Records :
        /\ EmailOf(results[i]) # ""
        /\ KeyOf(results[i]) \in Keys(certs)
        /\ results[i].match_type = "exact"
        /\ Len(certs) > 1

\* some index key reaches the fuzzy candidate threshold 0.70 against key
FuzzyCandidate(key) ==
    \E c \in Keys(certs) : RatioGE(Sim(c, key), 7, 10)

\* C6: the tiers are evaluated in the order exact, fuzzy, partial, each
\* only after the previous one failed: the fuzzy tier is evaluated only if
\* the key is not in the index, the partial tier only if moreover no index
\* key reaches 0.70 against the key; so for the tier of the result.
C6_TierOrder ==
    InLoop => \A i \in Records :
        EmailOf(results[i]) # "" =>
            /\ tried[i] \in {<<"exact">>, <<"exact", "fuzzy">>,
                             <<"exact", "fuzzy", "partial">>}
            /\ (Len(tried[i]) >= 2 => KeyOf(results[i]) \notin Keys(certs))
            /\ (Len(tried[i]) >= 3 => ~FuzzyCandidate(KeyOf(results[i])))
            /\ (results[i].match_type = "fuzzy" =>
                    KeyOf(results[i]) \notin Keys(certs))
            /\ (results[i].match_type = "partial" =>
                    /\ KeyOf(results[i]) \notin Keys(certs)
                    /\ ~FuzzyCandidate(KeyOf(results[i])))

C6_Witness ==
    InLoop /\ idx = Len(df) /\ \E i \in Records :
        /\ results[i].match_type = "partial"
        /\ tried[i] = <<"exact", "fuzzy", "partial">>

\* the similarity of key to its nearest index key is exactly p/q (in both
\* directions of the comparison)
NearestSimilarityIs(key, p, q) ==
    /\ \E c \in Keys(certs) :
          /\ RatioEQ(Sim(key, c), [num |-> p, den |-> q])
          /\ RatioEQ(Sim(c, key), [num |-> p, den |-> q])
    /\ \A c \in Keys(certs) :
          /\ ~RatioLT([num |-> p, den |-> q], Sim(key, c))
          /\ ~RatioLT([num |-> p, den |-> q], Sim(c, key))

\* C7: a key whose similarity to the nearest index key is 0.65 gives a
\* result of tier fuzzy with status low_confidence_match and confidence
\* 0.65.
C7_BelowFloorIsLowConfidence ==
    InLoop => \A i \in Records :
        (EmailOf(results[i]) # "" /\ NearestSimilarityIs(KeyOf(results[i]), 13, 20)) =>
            /\ results[i].match_type = "fuzzy"
            /\ results[i].status = "low_confidence_match"
            /\ RatioEQ(results[i].match_confidence, [num |-> 13, den |-> 20])

\* the index keys the partial tier looks at for key
PartialCandidates(key) ==
    { c \in Keys(certs) : Contains(c, IF key = "" THEN "" ELSE FirstToken(key)) }

\* no tier accepts key
NoTierAccepts(key) ==
    /\ key \notin Keys(certs)
    /\ ~FuzzyCandidate(key)
    /\ \A c \in PartialCandidates(key) : ~RatioGE(Sim(key, c), 6, 10)

\* C8: when no tier accepts, the record has tier none, confidence 0.0, no
\* filename, certificate_found false and status certificate_not_found,
\* also when a partial candidate was examined.
C8_NoTierAccepts ==
    InLoop => \A i \in Records :
        (EmailOf(results[i]) # "" /\ NoTierAccepts(KeyOf(results[i]))) =>
            /\ results[i].match_type = None
            /\ results[i].match_confidence = Zero
            /\ results[i].certificate_filename = None
            /\ results[i].certificate_found = FALSE
            /\ results[i].status = "certificate_not_found"

C8_Witness ==
    InLoop /\ idx = Len(df) /\ \E i \in Records :
        /\ results[i].status = "certificate_not_found"
        /\ \E c \in PartialCandidates(KeyOf(results[i])) :
              ~RatioZero(Sim(KeyOf(results[i]), c))

\* positions among the first n entries of l that give the key
EntriesFor(l, n, key) ==
    { i \in 1..n : IsPdf(l[i]) /\ EntryKey[l[i]] = key }

\* C9: while and after build_cert_map runs over the listing, the map has
\* each key once; the keys are the non-empty keys of the .pdf entries
\* processed, and each key maps to the last processed entry that gives it.
C9_LastWriteWins ==
    pc = "listdir" =>
        /\ Cardinality(Keys(certs)) = Len(certs)
        /\ Keys(certs) = { EntryKey[listing[i]] :
                             i \in { j \in 1..k : IsPdf(listing[j]) } } \ {""}
        /\ \A key \in Keys(certs) :
              Get(certs, key) = listing[SetMax(EntriesFor(listing, k, key))]

C9_Witness ==
    /\ pc = "listdir"
    /\ k = Len(listing)
    /\ \E key \in Keys(certs) :
          /\ Cardinality(EntriesFor(listing, k, key)) = 2
          /\ Get(certs, key) = listing[2]

Started == pc \notin {"load_excel", "build_cert_map", "listdir"}

\* C10: if build_cert_map gives an empty map, main stops there: the
\* matcher is never called, no report is written, no SMTP connection is
\* opened and nothing is sent.
C10_EmptyIndexStops ==
    (Started /\ certs = <<>>) =>
        /\ pc = "done"
        /\ ending \in {"no_certs", "excel_error", "too_few_columns"}
        /\ ~validate_called
        /\ ~report_written
        /\ results = <<>>
        /\ smtp_connects = 0
        /\ server = "None"
        /\ send_calls = <<>>
        /\ sent = <<>>

C10_Witness ==
    /\ ending = "no_certs"
    /\ Len(df) = MaxRows
    /\ \E i \in 1..Len(df) : RowEmail[df[i]] # ""

(***************************************************************************)
(* split_and_rename_certificates                                           *)
(***************************************************************************)
\* sanitize_filename(extract_participant_name_from_page(page)) of each page
PageName ==
    [p \in PageKinds |->
        IF extract_participant_name_from_page(p) = None THEN None
        ELSE sanitize_filename(extract_participant_name_from_page(p))] @@ Empty

\* the sanitized name of the page with index i (None if it has none)
NameOfPage(i) == PageName[pages[i + 1]]

Attempts == 1..Len(attempted)

\* the number of pages before page i that have the sanitized name of page i
EarlierSameName(i) ==
    Cardinality({ j \in 0..(i - 1) : NameOfPage(j) = NameOfPage(i) })

\* C11: starting from an empty output folder, a page that is saved and is
\* the first in page order with its sanitized name n is saved as n.pdf, and
\* one that has k earlier pages with the name n is saved as n_k.pdf, so its
\* file name is a function of the page sequence.
C11_SuffixesInPageOrder ==
    existing = {} =>
        \A a \in Attempts :
            attempted[a].saved =>
                LET i == attempted[a].page
                    n == NameOfPage(i)
                    c == EarlierSameName(i)
                IN  attempted[a].path =
                        IF c = 0 THEN n \o ".pdf"
                        ELSE n \o "_" \o ToString(c) \o ".pdf"

\* three pages with the same name have been saved into an empty folder
C11_Witness ==
    /\ existing = {}
    /\ pc = "finished"
    /\ Len(attempted) = 3
    /\ \A a \in Attempts : attempted[a].saved /\ NameOfPage(a - 1) = "Anna Maria"
    /\ attempted[3].path = "Anna Maria_2.pdf"

\* the page numbers written to SKIPPED_LOG
LoggedPages == { skipped_log[i] : i \in 1..Len(skipped_log) }

\* C12: a page that fails (no name found, or an error while it is written)
\* is logged and counted as skipped and the loop goes on: pages are attempted
\* once each in page order, and when the loop ends every page has been
\* attempted and processed + skipped is the number of pages.
C12_FailuresDoNotAbort ==
    pc \in {"pages", "finished"} =>
        /\ Len(attempted) = page_idx
        /\ \A a \in Attempts : attempted[a].page = a - 1
        /\ \A a \in Attempts : NameOfPage(a - 1) = None => ~attempted[a].saved
        /\ \A a \in Attempts : ~attempted[a].saved <=> a \in LoggedPages
        /\ \A i, j \in 1..Len(skipped_log) : i < j => skipped_log[i] < skipped_log[j]
        /\ skipped_pages = Len(skipped_log)
        /\ processed = Cardinality({ a \in Attempts : attempted[a].saved })
        /\ processed + skipped_pages = page_idx
        /\ pc = "finished" => page_idx = total_pages

\* the first page has no name, the second is not written, the third is saved
C12_Witness ==
    /\ pc = "finished"
    /\ total_pages = 3
    /\ NameOfPage(0) = None
    /\ NameOfPage(1) # None /\ ~attempted[2].saved
    /\ attempted[3].saved
    /\ processed = 1 /\ skipped_pages = 2

(***************************************************************************)
(* normalize_name and fuzzy_match on their own                             *)
(***************************************************************************)
\* C13: normalize_name is idempotent: applied to its own result it gives
\* that result again, also where the removal of punctuation joins letters
\* into a title.
C13_NormalizeIdempotent ==
    Len(nn_results) = 2 => nn_results[2] = nn_results[1]

\* the keys of the index that reach the cutoff 0.70 with the highest
\* similarity to the name looked up
BestKeys ==
    { i \in 1..Len(fm_keys) :
        /\ RatioGE(ratio(fm_keys[i], fm_name), 7, 10)
        /\ \A j \in 1..Len(fm_keys) :
              ~RatioLT(ratio(fm_keys[i], fm_name), ratio(fm_keys[j], fm_name)) }

\* C14: when several keys of the index share the highest similarity (at or
\* above 0.70) to the name looked up, the fuzzy tier chooses the one that
\* comes first in the key order of the index.
C14_TieGoesToFirstKey ==
    (pc = "returned" /\ Cardinality(BestKeys) > 1) =>
        fm_key = fm_keys[SetMin(BestKeys)]

(***************************************************************************)
(* split_and_rename_certificates: the files written                        *)
(***************************************************************************)
SavedAttempts == { a \in Attempts : attempted[a].saved }

\* C15: within one run every page that is saved is written to a path that
\* did not exist when it was opened: no file that was in the output folder
\* before the run is overwritten and no two pages are saved to the same
\* file, whatever the names of the pages and the contents of the folder.
C15_NoOverwrite ==
    /\ \A a \in SavedAttempts :
          /\ ~attempted[a].existed
          /\ attempted[a].path \notin existing
          /\ attempted[a].path \in folder
    /\ \A a, b \in SavedAttempts : a # b => attempted[a].path # attempted[b].path

\* two pages with the same name are saved into a folder that already holds
\* the two file names they would get in an empty folder
C15_Witness ==
    /\ existing = {"Anna Maria.pdf", "Anna Maria_1.pdf"}
    /\ Len(attempted) = 2
    /\ SavedAttempts = {1, 2}
    /\ attempted[1].path = "Anna Maria_2.pdf"
    /\ attempted[2].path = "Anna Maria_1_1.pdf"

(***************************************************************************)
(* main: the confirmation prompt and test mode                             *)
(***************************************************************************)
\* the report holds a row the warning counts
HasIssues ==
    \E i \in Records :
        results[i].status \in {"certificate_not_found", "low_confidence_match",
                               "invalid_email"}

NothingSent ==
    /\ smtp_connects = 0
    /\ server = "None"
    /\ send_calls = <<>>
    /\ sent = <<>>

\* C16 as stated: outside test mode, with a row counted by the warning in
\* the report, no SMTP connection is opened and nothing is sent unless the
\* answer to the prompt is 'yes'; in test mode no SMTP connection is opened
\* and send_message is never called.
C16_GateOnLiteralYes ==
    /\ (~TEST_MODE /\ HasIssues /\ response # "yes") => NothingSent
    /\ TEST_MODE => (smtp_connects = 0 /\ server = "None" /\ sent = <<>>)

\* C16, amended: as above, with the answer compared in lower case: no SMTP
\* connection and no send unless the answer is 'yes' in any letter case.
C16_GateOnYesInAnyCase ==
    /\ (~TEST_MODE /\ HasIssues /\ Lower(response) # "yes") => NothingSent
    /\ TEST_MODE => (smtp_connects = 0 /\ server = "None" /\ sent = <<>>)

\* the operator answers 'no' to a report that has a row to send and a row
\* the warning counts
C16_Witness ==
    /\ ~TEST_MODE
    /\ ending = "cancelled"
    /\ response = "no"
    /\ HasIssues
    /\ \E i \in Records : Sendable(results[i].status)

====
